---- MODULE Spec2Model ----
(***************************************************************************)
(* MCGPU Metropolis Monte Carlo driver: Simulation::Simulation,            *)
(* Simulation::run and Simulation::saveState of                            *)
(* src/Metropolis/Simulation.cpp.                                          *)
(*                                                                         *)
(* The Box, the two energy backends (SerialCalcs, ParallelCalcs), the      *)
(* random source and the state writer are collaborators whose code is not  *)
(* part of the driver; they are modelled from their contracts.  Energies   *)
(* are integers (exact arithmetic), molecules live on a periodic           *)
(* one-dimensional lattice, and the Boltzmann factor is a fixed-point      *)
(* number with FixedOne standing for 1.0.                                  *)
(***************************************************************************)
EXTENDS Integers, Sequences, FiniteSets

\* ------------------------------------------------------------------ bounds

\* Largest step count a configuration file or a command line asks for.
MaxSteps == 2

\* Number of molecules in the box (Environment::numOfMolecules).
NumMol == 2

\* Number of lattice sites along the periodic box.
BoxSize == 3

\* ------------------------------------------------- collaborators' constants

\* Boltzmann constant in the model's energy unit per kelvin.
kBoltz == 1

\* Linear congruential generator behind seed() and randomReal().
RngMod == 32

RngMul == 13

RngInc == 7

\* Fixed-point representation of 1.0 for the Boltzmann factor.
FixedOne == 1000

Molecules == 1..NumMol

Sites == 0..(BoxSize - 1)

\* Values of Environment::randomseed.
Seeds == {0, 5}

Temps == {1, 2}

StepStarts == {0, 2}

StateIntervals == {-1, 0, 1, 2}

StepCounts == {-1, 0, 1}

SimulationModes == {"Serial", "Parallel"}

SimulationNames == {"", "waterCPU"}

\* States the random source may be in before it is seeded.
PreSeedStates == {r \in 0..(RngMod - 1) : r % 8 = 3}

\* ------------------------------------------------------- random source

\* One step of the generator: the state after a draw is the value drawn.
RandNext(r) == (RngMul * r + RngInc) % RngMod

\* seed(s): the generator's state becomes a function of s alone.
SeedState(s) == s % RngMod

\* ---------------------------------------------------------------- Box

Abs(x) == IF x < 0 THEN -x ELSE x

\* Minimum-image distance between two sites of the periodic box.
Dist(a, b) == IF Abs(a - b) <= BoxSize - Abs(a - b) THEN Abs(a - b) ELSE BoxSize - Abs(a - b)

\* Interaction energy of two molecules: repulsive on contact, attractive at
\* distance one, nothing beyond.
PairEnergy(a, b) == IF Dist(a, b) = 0 THEN 3 ELSE IF Dist(a, b) = 1 THEN -1 ELSE 0

\* Box::chooseMolecule: one draw r picks the molecule.
ChooseMolecule(r) == ((r \div 4) % NumMol) + 1

\* Box::changeMolecule: one draw r picks a translation of -1, 0 or +1 site,
\* wrapped into the periodic box.
Perturbed(p, r) == (p + (r % 3) - 1 + BoxSize) % BoxSize

\* Box::changeMolecule on molecule i: the molecule is backed up, then moved.
ChangeMolecule(b, i, r) == [b EXCEPT !.pos[i] = Perturbed(b.pos[i], r), !.backup = b.pos[i]]

\* Box::rollback on molecule i: the backed-up molecule is copied into slot i.
RollbackMolecule(b, i) == [b EXCEPT !.pos[i] = b.backup]

\* ------------------------------------------------------ energy backends

RECURSIVE SumOver(_, _)
\* Sum of f[x] over the finite set S.
SumOver(f, S) == IF S = {} THEN 0 ELSE LET x == CHOOSE y \in S : TRUE IN f[x] + SumOver(f, S \ {x})

\* SerialCalcs::calcMolecularEnergyContribution: molecule i against all others.
SerialCalcMolecularEnergyContribution(pos, i) == SumOver([j \in Molecules |-> IF j = i THEN 0 ELSE PairEnergy(pos[i], pos[j])], Molecules)

\* ParallelCalcs::calcMolecularEnergyContribution: the same pairs, reduced
\* from the other end of the molecule array.
ParallelCalcMolecularEnergyContribution(pos, i) == SumOver([j \in Molecules |-> IF j = i THEN 0 ELSE PairEnergy(pos[j], pos[i])], Molecules \ {i})

\* SerialCalcs::calcSystemEnergy: every unordered pair once.
SerialCalcSystemEnergy(pos) == SumOver([i \in Molecules |-> SumOver([j \in Molecules |-> IF j > i THEN PairEnergy(pos[i], pos[j]) ELSE 0], Molecules)], Molecules)

\* ParallelCalcs::calcSystemEnergy: every molecule's contribution, each pair
\* counted from both ends and halved.
ParallelCalcSystemEnergy(pos) == SumOver([i \in Molecules |-> ParallelCalcMolecularEnergyContribution(pos, i)], Molecules) \div 2

\* ------------------------------------------------------ Boltzmann factor

RECURSIVE ExpSeries(_, _, _, _)
\* FixedOne * (sum over n >= k of q^n / n!) for q = num / den, given the
\* term for n = k; the series is cut where the fixed-point term vanishes.
ExpSeries(term, num, den, k) == IF term = 0 THEN 0 ELSE term + ExpSeries((term * num) \div (den * k), num, den, k + 1)

\* exp(-(delta) / kT) in fixed point.  kT = 0 follows IEEE arithmetic:
\* a positive delta gives exp(-inf) = 0, delta = 0 gives exp(NaN) = NaN,
\* written -1 here (every comparison with NaN is false).
BoltzmannFactor(delta, kt) == IF kt = 0 THEN (IF delta = 0 THEN -1 ELSE 0) ELSE IF delta >= 0 THEN (FixedOne * FixedOne) \div ExpSeries(FixedOne, delta, kt, 1) ELSE ExpSeries(FixedOne, -delta, kt, 1)

\* x >= randomReal(0.0, 1.0), the draw being r / RngMod.
FactorAtLeastDraw(x, r) == x >= 0 /\ x * RngMod >= r * FixedOne

\* ------------------------------------------------------------ driver state

VARIABLES
  input,         \* what createBox finds in the input files
  prev,          \* outcome of the earlier run on the same input, if any
  pc,            \* the driver's position in the constructor and in run()
  args,          \* SimulationArgs, fixed for the lifetime of a run
  box,           \* the Box (null until createBox returns one)
  rng,           \* state of the shared random source
  seedCalls,     \* number of seed() calls of this run
  stepStart,     \* Simulation::stepStart
  simSteps,      \* Simulation::simSteps
  kT,            \* local kT of run()
  move,          \* loop variable of run()
  oldEnergy,     \* running energy of run()
  oldEnergyCont, \* contribution before the perturbation
  newEnergyCont, \* contribution after the perturbation
  changeIdx,     \* molecule chosen in the current step
  accept,        \* decision of the current step
  draws,         \* randomReal() calls made by the current step's decision
  accepted,      \* accepted moves
  rejected,      \* rejected moves
  stateFiles,    \* state files written by saveState(), in order
  saveLog,       \* how each saveState() call of this run ended, in order
  results,       \* the results file and the coordinate file, once written
  trace,         \* Box and backend operations invoked by the driver, in order
  boundary       \* the run's state at every evaluation of the loop condition

vars == <<input, prev, pc, args, box, rng, seedCalls, stepStart, simSteps, kT, move, oldEnergy, oldEnergyCont, newEnergyCont, changeIdx, accept, draws, accepted, rejected, stateFiles, saveLog, results, trace, boundary>>

SimulationArgs == [simulationMode : SimulationModes, simulationName : SimulationNames, stepCount : StepCounts, stateInterval : StateIntervals]

\* The null Box pointer.
NoBox == [null |-> TRUE, pos |-> [i \in Molecules |-> 0], backup |-> 0, randomseed |-> 0, temp |-> 0]

\* Initial configurations: the periodic box is translation invariant, so the
\* first molecule is put at site 0.
InitialPositions == {p \in [Molecules -> Sites] : p[1] = 0}

\* Boxes a backend's createBox can build.
Boxes == [null : {FALSE}, pos : InitialPositions, backup : {0}, randomseed : Seeds, temp : Temps]

\* Input files: unusable, or a box with its resume point and step count.
Inputs == [box : {NoBox}, stepStart : {0}, simSteps : {0}] \cup [box : Boxes, stepStart : StepStarts, simSteps : 0..MaxSteps]

Event(op, step, idx, by, val) == [op |-> op, step |-> step, idx |-> idx, by |-> by, val |-> val]

Snapshot == [move |-> move, pos |-> box.pos, oldEnergy |-> oldEnergy, accepted |-> accepted, rejected |-> rejected]

\* ----------------------------------------------------------- constructor

\* Backend whose createBox is called (lines 39-42).
FactoryBackend(mode) == IF mode = "Parallel" THEN "Parallel" ELSE "Serial"

\* A constructor without the seed() call: the generator stays as it was.
Unseeded(b) == rng

\* The generator's state after line 52, seed(box->environment->randomseed).
Seeded(b) == SeedState(b.randomseed)

\* An override test that lets zero through.
OverrideStepsNonNegative(stepCount, derived) == IF stepCount >= 0 THEN stepCount ELSE derived

\* Step-count override (lines 55-56).
OverrideSteps(stepCount, derived) == IF stepCount > 0 THEN stepCount ELSE derived

\* A constructor that reports the missing box and returns to its caller.
ConstructFailsReturns ==
  /\ pc = "new"
  /\ input.box.null
  /\ box' = NoBox
  /\ stepStart' = 0
  /\ trace' = Append(trace, Event("createBox", 0, 0, FactoryBackend(args.simulationMode), 0))
  /\ pc' = "constructed"
  /\ UNCHANGED <<input, prev, args, rng, seedCalls, simSteps, kT, move, oldEnergy, oldEnergyCont, newEnergyCont, changeIdx, accept, draws, accepted, rejected, stateFiles, saveLog, results, boundary>>

\* Simulation::Simulation, lines 33-48: createBox returns no box and the
\* process exits.
ConstructFails ==
  /\ pc = "new"
  /\ input.box.null
  /\ box' = NoBox
  /\ stepStart' = 0
  /\ trace' = Append(trace, Event("createBox", 0, 0, FactoryBackend(args.simulationMode), 0))
  /\ pc' = "exit"
  /\ UNCHANGED <<input, prev, args, rng, seedCalls, simSteps, kT, move, oldEnergy, oldEnergyCont, newEnergyCont, changeIdx, accept, draws, accepted, rejected, stateFiles, saveLog, results, boundary>>

\* Simulation::Simulation, lines 33-57: createBox returns a box with its
\* resume point and its configured step count; the random source is seeded
\* from the box; the step-count override is applied.
Construct ==
  /\ pc = "new"
  /\ ~input.box.null
  /\ box' = input.box
  /\ stepStart' = input.stepStart
  /\ simSteps' = OverrideSteps(args.stepCount, input.simSteps)
  /\ rng' = Seeded(input.box)
  /\ seedCalls' = seedCalls + 1
  /\ trace' = Append(trace, Event("createBox", 0, 0, FactoryBackend(args.simulationMode), 0))
  /\ pc' = "constructed"
  /\ UNCHANGED <<input, prev, args, kT, move, oldEnergy, oldEnergyCont, newEnergyCont, changeIdx, accept, draws, accepted, rejected, stateFiles, saveLog, results, boundary>>

\* ------------------------------------------------------------------- run

\* Backend dispatch of the baseline energy (lines 88-95): the value and the
\* backend that computed it.
CalcSystemEnergy(mode, pos) == IF mode = "Parallel" THEN [val |-> ParallelCalcSystemEnergy(pos), by |-> "Parallel"] ELSE [val |-> SerialCalcSystemEnergy(pos), by |-> "Serial"]

\* Backend dispatch of the query before the perturbation (lines 128-135).
CalcOldEnergyCont(mode, pos, idx) == IF mode = "Parallel" THEN [val |-> ParallelCalcMolecularEnergyContribution(pos, idx), by |-> "Parallel"] ELSE [val |-> SerialCalcMolecularEnergyContribution(pos, idx), by |-> "Serial"]

\* A dispatch that sends the second query to the serial backend in both modes.
CalcNewEnergyContSerialOnly(mode, pos, idx) == [val |-> SerialCalcMolecularEnergyContribution(pos, idx), by |-> "Serial"]

\* Backend dispatch of the query after the perturbation (lines 139-146).
CalcNewEnergyCont(mode, pos, idx) == IF mode = "Parallel" THEN [val |-> ParallelCalcMolecularEnergyContribution(pos, idx), by |-> "Parallel"] ELSE [val |-> SerialCalcMolecularEnergyContribution(pos, idx), by |-> "Serial"]

\* Base name of the state files (lines 101-109).
BaseStateFile(name) == IF name # "" THEN name ELSE "untitled"

\* A loop condition that also admits the terminal index.
LoopConditionInclusive(m, start, steps) == m <= start + steps

\* Loop condition (line 111).
LoopCondition(m, start, steps) == m < start + steps

\* A checkpoint condition without the move > stepStart test.
CheckpointDueAtZero(interval, m, start) == interval > 0 /\ (m - start) % interval = 0

\* In-loop checkpoint condition (line 119).
CheckpointDue(interval, m, start) == interval > 0 /\ m > start /\ (m - start) % interval = 0

\* A final checkpoint condition that treats interval 0 as disabled.
FinalSaveDuePositive(interval) == interval > 0

\* Final checkpoint condition (line 188).
FinalSaveDue(interval) == interval >= 0

\* A downhill test that also takes equal contributions.
DownhillOrEqual(newCont, oldCont) == newCont <= oldCont

\* The downhill test (line 150).
Downhill(newCont, oldCont) == newCont < oldCont

\* A Metropolis test with the comparison turned round.
MetropolisAcceptReversed(newCont, oldCont, kt, r) == ~FactorAtLeastDraw(BoltzmannFactor(newCont - oldCont, kt), r)

\* The Metropolis test of the other branch (lines 156-158): r is the draw.
MetropolisAccept(newCont, oldCont, kt, r) == FactorAtLeastDraw(BoltzmannFactor(newCont - oldCont, kt), r)

\* An energy commit that forgets to subtract the old contribution.
CommittedEnergyNoOld(energy, newCont, oldCont) == energy + newCont

\* Energy commit of an accepted step (line 171).
CommittedEnergy(energy, newCont, oldCont) == energy + (newCont - oldCont)

\* The neighbour of the chosen molecule.
OtherIndex(idx) == (idx % NumMol) + 1

\* Index handed to Box::changeMolecule (line 137).
ChangeIndex(idx) == idx

\* Index handed to Box::rollback (line 177).
RollbackIndex(idx) == idx

DigitChars == <<"0", "1", "2", "3", "4", "5", "6", "7", "8", "9">>

RECURSIVE ToString(_)
\* toString<int>: the decimal digits of a non-negative step index.
ToString(n) == IF n < 10 THEN <<DigitChars[n + 1]>> ELSE ToString(n \div 10) \o <<DigitChars[(n % 10) + 1]>>

\* toString<int> reports success: writing an int to a working string
\* stream does not fail.  The call that reports failure is the subject of
\* CheckpointSkipped and FinalSaveSkipped.
ToStringSucceeds(n) == n \in Int

\* Path of a state file (lines 239-247).
StateOutputPath(base, step) == <<base, "_">> \o ToString(step) \o <<".state">>

\* Simulation::saveState: returns without writing if toString fails (lines
\* 242-243); otherwise the state file for simStep is written from the
\* current Box (line 251).
SaveState(files, base, simStep, inLoop) == IF ~ToStringSucceeds(simStep) THEN files ELSE Append(files, [name |-> StateOutputPath(base, simStep), step |-> simStep, pos |-> box.pos, inLoop |-> inLoop])

\* How one saveState call ended: "written" (line 251 wrote the file),
\* "skipped" (the early return of lines 242-243) or "failed" (outputState
\* could not write); reported says whether a diagnostic was emitted.
SaveAttempt(simStep, outcome, reported) == [step |-> simStep, outcome |-> outcome, reported |-> reported]

\* The log entry of a saveState call whose file output works: the early
\* return of lines 242-243 emits nothing.
SaveStateLogged(log, simStep) == Append(log, SaveAttempt(simStep, IF ToStringSucceeds(simStep) THEN "written" ELSE "skipped", FALSE))

\* toString<int> returns false: saveState returns at line 243, before the
\* path is built and before anything is printed.
SaveStateNoString(log, simStep) == Append(log, SaveAttempt(simStep, "skipped", FALSE))

\* outputState cannot write the file: the scanner reports the failure and
\* returns; saveState, a void function, returns normally to run().
SaveStateNoWrite(log, simStep) == Append(log, SaveAttempt(simStep, "failed", TRUE))

\* The state before the constructor runs, for given arguments and input.
Fresh ==
  /\ pc = "new"
  /\ box = NoBox
  /\ seedCalls = 0
  /\ stepStart = 0
  /\ simSteps = 0
  /\ kT = 0
  /\ move = 0
  /\ oldEnergy = 0
  /\ oldEnergyCont = 0
  /\ newEnergyCont = 0
  /\ changeIdx = 0
  /\ accept = FALSE
  /\ draws = 0
  /\ accepted = 0
  /\ rejected = 0
  /\ stateFiles = <<>>
  /\ saveLog = <<>>
  /\ results = <<>>
  /\ trace = <<>>
  /\ boundary = <<>>

Init ==
  /\ input \in Inputs
  /\ prev = <<>>
  /\ args \in SimulationArgs
  /\ rng \in PreSeedStates
  /\ Fresh

\* run(), lines 69-109: locals, kT and the baseline energy.
RunBegin ==
  /\ pc = "constructed"
  /\ kT' = kBoltz * box.temp
  /\ accepted' = 0
  /\ rejected' = 0
  /\ oldEnergy' = CalcSystemEnergy(args.simulationMode, box.pos).val
  /\ trace' = Append(trace, Event("calcSystemEnergy", stepStart, 0, CalcSystemEnergy(args.simulationMode, box.pos).by, CalcSystemEnergy(args.simulationMode, box.pos).val))
  /\ move' = stepStart
  /\ pc' = "loop"
  /\ UNCHANGED <<input, prev, args, box, rng, seedCalls, stepStart, simSteps, oldEnergyCont, newEnergyCont, changeIdx, accept, draws, stateFiles, saveLog, results, boundary>>

\* Line 111, condition true: the next step begins.  The status line of
\* lines 113-117 only prints; line 119 decides whether a checkpoint comes
\* first.
LoopEnter ==
  /\ pc = "loop"
  /\ LoopCondition(move, stepStart, simSteps)
  /\ boundary' = Append(boundary, Snapshot)
  /\ pc' = IF CheckpointDue(args.stateInterval, move, stepStart) THEN "checkpoint" ELSE "choose"
  /\ UNCHANGED <<input, prev, args, box, rng, seedCalls, stepStart, simSteps, kT, move, oldEnergy, oldEnergyCont, newEnergyCont, changeIdx, accept, draws, accepted, rejected, stateFiles, saveLog, results, trace>>

\* Line 111, condition false: the loop is left.
LoopExit ==
  /\ pc = "loop"
  /\ ~LoopCondition(move, stepStart, simSteps)
  /\ boundary' = Append(boundary, Snapshot)
  /\ pc' = "final"
  /\ UNCHANGED <<input, prev, args, box, rng, seedCalls, stepStart, simSteps, kT, move, oldEnergy, oldEnergyCont, newEnergyCont, changeIdx, accept, draws, accepted, rejected, stateFiles, saveLog, results, trace>>

\* A checkpoint that takes a draw from the shared random source.
CheckpointDrawing ==
  /\ pc = "checkpoint"
  /\ stateFiles' = SaveState(stateFiles, BaseStateFile(args.simulationName), move, TRUE)
  /\ saveLog' = SaveStateLogged(saveLog, move)
  /\ rng' = RandNext(rng)
  /\ pc' = "choose"
  /\ UNCHANGED <<input, prev, args, box, seedCalls, stepStart, simSteps, kT, move, oldEnergy, oldEnergyCont, newEnergyCont, changeIdx, accept, draws, accepted, rejected, results, trace, boundary>>

\* A checkpoint filed under the index of the step after the coming one.
CheckpointNextIndex ==
  /\ pc = "checkpoint"
  /\ stateFiles' = SaveState(stateFiles, BaseStateFile(args.simulationName), move + 1, TRUE)
  /\ saveLog' = SaveStateLogged(saveLog, move + 1)
  /\ pc' = "choose"
  /\ UNCHANGED <<input, prev, args, box, rng, seedCalls, stepStart, simSteps, kT, move, oldEnergy, oldEnergyCont, newEnergyCont, changeIdx, accept, draws, accepted, rejected, results, trace, boundary>>

\* Lines 119-124: the in-loop checkpoint.
Checkpoint ==
  /\ pc = "checkpoint"
  /\ stateFiles' = SaveState(stateFiles, BaseStateFile(args.simulationName), move, TRUE)
  /\ saveLog' = SaveStateLogged(saveLog, move)
  /\ pc' = "choose"
  /\ UNCHANGED <<input, prev, args, box, rng, seedCalls, stepStart, simSteps, kT, move, oldEnergy, oldEnergyCont, newEnergyCont, changeIdx, accept, draws, accepted, rejected, results, trace, boundary>>

\* Lines 119-124 when toString<int> fails inside saveState (lines 242-243).
CheckpointSkipped ==
  /\ pc = "checkpoint"
  /\ saveLog' = SaveStateNoString(saveLog, move)
  /\ pc' = "choose"
  /\ UNCHANGED <<input, prev, args, box, rng, seedCalls, stepStart, simSteps, kT, move, oldEnergy, oldEnergyCont, newEnergyCont, changeIdx, accept, draws, accepted, rejected, stateFiles, results, trace, boundary>>

\* A failed checkpoint write that ends the run.
CheckpointWriteAborts ==
  /\ pc = "checkpoint"
  /\ saveLog' = SaveStateNoWrite(saveLog, move)
  /\ pc' = "exit"
  /\ UNCHANGED <<input, prev, args, box, rng, seedCalls, stepStart, simSteps, kT, move, oldEnergy, oldEnergyCont, newEnergyCont, changeIdx, accept, draws, accepted, rejected, stateFiles, results, trace, boundary>>

\* Lines 119-124 when outputState (line 251) cannot write the file.
CheckpointWriteFails ==
  /\ pc = "checkpoint"
  /\ saveLog' = SaveStateNoWrite(saveLog, move)
  /\ pc' = "choose"
  /\ UNCHANGED <<input, prev, args, box, rng, seedCalls, stepStart, simSteps, kT, move, oldEnergy, oldEnergyCont, newEnergyCont, changeIdx, accept, draws, accepted, rejected, stateFiles, results, trace, boundary>>

\* Line 126: box->chooseMolecule().
Choose ==
  /\ pc = "choose"
  /\ rng' = RandNext(rng)
  /\ changeIdx' = ChooseMolecule(RandNext(rng))
  /\ draws' = 0
  /\ trace' = Append(trace, Event("chooseMolecule", move, ChooseMolecule(RandNext(rng)), "Box", 0))
  /\ pc' = "oldcont"
  /\ UNCHANGED <<input, prev, args, box, seedCalls, stepStart, simSteps, kT, move, oldEnergy, oldEnergyCont, newEnergyCont, accept, accepted, rejected, stateFiles, saveLog, results, boundary>>

\* Lines 128-135: the contribution before the perturbation.
QueryOld ==
  /\ pc = "oldcont"
  /\ oldEnergyCont' = CalcOldEnergyCont(args.simulationMode, box.pos, changeIdx).val
  /\ trace' = Append(trace, Event("oldEnergyCont", move, changeIdx, CalcOldEnergyCont(args.simulationMode, box.pos, changeIdx).by, CalcOldEnergyCont(args.simulationMode, box.pos, changeIdx).val))
  /\ pc' = "change"
  /\ UNCHANGED <<input, prev, args, box, rng, seedCalls, stepStart, simSteps, kT, move, oldEnergy, newEnergyCont, changeIdx, accept, draws, accepted, rejected, stateFiles, saveLog, results, boundary>>

\* Line 137: box->changeMolecule(changeIdx).
Change ==
  /\ pc = "change"
  /\ rng' = RandNext(rng)
  /\ box' = ChangeMolecule(box, ChangeIndex(changeIdx), RandNext(rng))
  /\ trace' = Append(trace, Event("changeMolecule", move, ChangeIndex(changeIdx), "Box", 0))
  /\ pc' = "newcont"
  /\ UNCHANGED <<input, prev, args, seedCalls, stepStart, simSteps, kT, move, oldEnergy, oldEnergyCont, newEnergyCont, changeIdx, accept, draws, accepted, rejected, stateFiles, saveLog, results, boundary>>

\* Lines 139-146: the contribution after the perturbation.
QueryNew ==
  /\ pc = "newcont"
  /\ newEnergyCont' = CalcNewEnergyCont(args.simulationMode, box.pos, changeIdx).val
  /\ trace' = Append(trace, Event("newEnergyCont", move, changeIdx, CalcNewEnergyCont(args.simulationMode, box.pos, changeIdx).by, CalcNewEnergyCont(args.simulationMode, box.pos, changeIdx).val))
  /\ pc' = "decide"
  /\ UNCHANGED <<input, prev, args, box, rng, seedCalls, stepStart, simSteps, kT, move, oldEnergy, oldEnergyCont, changeIdx, accept, draws, accepted, rejected, stateFiles, saveLog, results, boundary>>

\* A decision that puts a downhill move to the Metropolis test on the size
\* of the energy change.
DecideDownhillByDraw ==
  /\ pc = "decide"
  /\ Downhill(newEnergyCont, oldEnergyCont)
  /\ rng' = RandNext(rng)
  /\ draws' = draws + 1
  /\ accept' = MetropolisAccept(oldEnergyCont, newEnergyCont, kT, RandNext(rng))
  /\ trace' = Append(trace, Event("decide", move, changeIdx, "Driver", IF MetropolisAccept(oldEnergyCont, newEnergyCont, kT, RandNext(rng)) THEN 1 ELSE 0))
  /\ pc' = "apply"
  /\ UNCHANGED <<input, prev, args, box, seedCalls, stepStart, simSteps, kT, move, oldEnergy, oldEnergyCont, newEnergyCont, changeIdx, accepted, rejected, stateFiles, saveLog, results, boundary>>

\* Lines 148-153: a downhill move is accepted without a draw.
DecideDownhill ==
  /\ pc = "decide"
  /\ Downhill(newEnergyCont, oldEnergyCont)
  /\ accept' = TRUE
  /\ trace' = Append(trace, Event("decide", move, changeIdx, "Driver", 1))
  /\ pc' = "apply"
  /\ UNCHANGED <<input, prev, args, box, rng, seedCalls, stepStart, simSteps, kT, move, oldEnergy, oldEnergyCont, newEnergyCont, changeIdx, draws, accepted, rejected, stateFiles, saveLog, results, boundary>>

\* Lines 154-166: otherwise one draw is compared with the Boltzmann factor.
DecideMetropolis ==
  /\ pc = "decide"
  /\ ~Downhill(newEnergyCont, oldEnergyCont)
  /\ rng' = RandNext(rng)
  /\ draws' = draws + 1
  /\ accept' = MetropolisAccept(newEnergyCont, oldEnergyCont, kT, RandNext(rng))
  /\ trace' = Append(trace, Event("decide", move, changeIdx, "Driver", IF MetropolisAccept(newEnergyCont, oldEnergyCont, kT, RandNext(rng)) THEN 1 ELSE 0))
  /\ pc' = "apply"
  /\ UNCHANGED <<input, prev, args, box, seedCalls, stepStart, simSteps, kT, move, oldEnergy, oldEnergyCont, newEnergyCont, changeIdx, accepted, rejected, stateFiles, saveLog, results, boundary>>

\* A rejection that restores the molecule but is not counted.
RollbackUncounted ==
  /\ pc = "apply"
  /\ ~accept
  /\ box' = RollbackMolecule(box, RollbackIndex(changeIdx))
  /\ trace' = Append(trace, Event("rollback", move, RollbackIndex(changeIdx), "Box", 0))
  /\ move' = move + 1
  /\ pc' = "loop"
  /\ UNCHANGED <<input, prev, args, rng, seedCalls, stepStart, simSteps, kT, oldEnergy, oldEnergyCont, newEnergyCont, changeIdx, accept, draws, accepted, rejected, stateFiles, saveLog, results, boundary>>

\* An accepted step that is committed and then rolled back as well.
CommitThenRollback ==
  /\ pc = "apply"
  /\ accept
  /\ accepted' = accepted + 1
  /\ oldEnergy' = CommittedEnergy(oldEnergy, newEnergyCont, oldEnergyCont)
  /\ box' = RollbackMolecule(box, RollbackIndex(changeIdx))
  /\ trace' = Append(trace, Event("commit", move, changeIdx, "Driver", 0))
  /\ move' = move + 1
  /\ pc' = "loop"
  /\ UNCHANGED <<input, prev, args, rng, seedCalls, stepStart, simSteps, kT, oldEnergyCont, newEnergyCont, changeIdx, accept, draws, rejected, stateFiles, saveLog, results, boundary>>

\* Lines 168-172 and the loop increment: the accepted step is committed.
Commit ==
  /\ pc = "apply"
  /\ accept
  /\ accepted' = accepted + 1
  /\ oldEnergy' = CommittedEnergy(oldEnergy, newEnergyCont, oldEnergyCont)
  /\ trace' = Append(trace, Event("commit", move, changeIdx, "Driver", 0))
  /\ move' = move + 1
  /\ pc' = "loop"
  /\ UNCHANGED <<input, prev, args, box, rng, seedCalls, stepStart, simSteps, kT, oldEnergyCont, newEnergyCont, changeIdx, accept, draws, rejected, stateFiles, saveLog, results, boundary>>

\* Lines 173-178 and the loop increment: the rejected step is rolled back.
Rollback ==
  /\ pc = "apply"
  /\ ~accept
  /\ rejected' = rejected + 1
  /\ box' = RollbackMolecule(box, RollbackIndex(changeIdx))
  /\ trace' = Append(trace, Event("rollback", move, RollbackIndex(changeIdx), "Box", 0))
  /\ move' = move + 1
  /\ pc' = "loop"
  /\ UNCHANGED <<input, prev, args, rng, seedCalls, stepStart, simSteps, kT, oldEnergy, oldEnergyCont, newEnergyCont, changeIdx, accept, draws, accepted, stateFiles, saveLog, results, boundary>>

\* Lines 181-191: the final state file.
FinalSave ==
  /\ pc = "final"
  /\ stateFiles' = IF FinalSaveDue(args.stateInterval) THEN SaveState(stateFiles, BaseStateFile(args.simulationName), stepStart + simSteps, FALSE) ELSE stateFiles
  /\ saveLog' = IF FinalSaveDue(args.stateInterval) THEN SaveStateLogged(saveLog, stepStart + simSteps) ELSE saveLog
  /\ pc' = "report"
  /\ UNCHANGED <<input, prev, args, box, rng, seedCalls, stepStart, simSteps, kT, move, oldEnergy, oldEnergyCont, newEnergyCont, changeIdx, accept, draws, accepted, rejected, results, trace, boundary>>

\* Lines 188-191 when toString<int> fails inside saveState (lines 242-243).
FinalSaveSkipped ==
  /\ pc = "final"
  /\ FinalSaveDue(args.stateInterval)
  /\ saveLog' = SaveStateNoString(saveLog, stepStart + simSteps)
  /\ pc' = "report"
  /\ UNCHANGED <<input, prev, args, box, rng, seedCalls, stepStart, simSteps, kT, move, oldEnergy, oldEnergyCont, newEnergyCont, changeIdx, accept, draws, accepted, rejected, stateFiles, results, trace, boundary>>

\* Lines 188-191 when outputState (line 251) cannot write the file.
FinalSaveWriteFails ==
  /\ pc = "final"
  /\ FinalSaveDue(args.stateInterval)
  /\ saveLog' = SaveStateNoWrite(saveLog, stepStart + simSteps)
  /\ pc' = "report"
  /\ UNCHANGED <<input, prev, args, box, rng, seedCalls, stepStart, simSteps, kT, move, oldEnergy, oldEnergyCont, newEnergyCont, changeIdx, accept, draws, accepted, rejected, stateFiles, results, trace, boundary>>

\* Lines 198 and 229: 100.0 * accepted / (accepted + rejected), a floating
\* division with no test of the divisor.  With no moves it is 0.0 / 0, which
\* does not trap and yields NaN; otherwise the percentage, here rounded down.
AcceptanceRatio(acc, rej) == IF acc + rej = 0 THEN [nan |-> TRUE, percent |-> 0] ELSE [nan |-> FALSE, percent |-> (100 * acc) \div (acc + rej)]

\* Lines 193-233: the console report, the results file and the coordinate file.
Report ==
  /\ pc = "report"
  /\ results' = <<[file |-> "results", finalEnergy |-> oldEnergy, accepted |-> accepted, rejected |-> rejected, ratio |-> AcceptanceRatio(accepted, rejected), stepStart |-> stepStart, simSteps |-> simSteps, pos |-> box.pos], [file |-> "pdb", finalEnergy |-> oldEnergy, accepted |-> accepted, rejected |-> rejected, stepStart |-> stepStart, simSteps |-> simSteps, pos |-> box.pos]>>
  /\ pc' = "done"
  /\ UNCHANGED <<input, prev, args, box, rng, seedCalls, stepStart, simSteps, kT, move, oldEnergy, oldEnergyCont, newEnergyCont, changeIdx, accept, draws, accepted, rejected, stateFiles, saveLog, trace, boundary>>

Next ==
  \/ ConstructFails
  \/ Construct
  \/ RunBegin
  \/ LoopEnter
  \/ LoopExit
  \/ Checkpoint
  \/ Choose
  \/ QueryOld
  \/ Change
  \/ QueryNew
  \/ DecideDownhill
  \/ DecideMetropolis
  \/ Commit
  \/ Rollback
  \/ FinalSave
  \/ Report

Spec == Init /\ [][Next]_vars

\* A second run of the program on the same input files and with the same
\* name and step-count override: the first run's outcome is kept for
\* comparison, the random source is left as the first run left it.
Restart ==
  /\ pc = "done"
  /\ prev = <<>>
  /\ prev' = <<[args |-> args, trace |-> trace, boundary |-> boundary, accepted |-> accepted, rejected |-> rejected, oldEnergy |-> oldEnergy, stateFiles |-> stateFiles, results |-> results]>>
  /\ args' \in {a \in SimulationArgs : a.simulationName = args.simulationName /\ a.stepCount = args.stepCount}
  /\ pc' = "new"
  /\ box' = NoBox
  /\ seedCalls' = 0
  /\ stepStart' = 0
  /\ simSteps' = 0
  /\ kT' = 0
  /\ move' = 0
  /\ oldEnergy' = 0
  /\ oldEnergyCont' = 0
  /\ newEnergyCont' = 0
  /\ changeIdx' = 0
  /\ accept' = FALSE
  /\ draws' = 0
  /\ accepted' = 0
  /\ rejected' = 0
  /\ stateFiles' = <<>>
  /\ saveLog' = <<>>
  /\ results' = <<>>
  /\ trace' = <<>>
  /\ boundary' = <<>>
  /\ UNCHANGED <<input, rng>>

NextPair == Next \/ Restart

PairInit == Init /\ args.simulationName = "" /\ args.stepCount = 0 /\ args.stateInterval \in {0, 1}

\* Two runs, one after the other.
SpecPair == PairInit /\ [][NextPair]_vars

\* The ways a saveState call can go wrong.
SaveFaults ==
  \/ CheckpointSkipped
  \/ CheckpointWriteFails
  \/ FinalSaveSkipped
  \/ FinalSaveWriteFails

NextIO == Next \/ SaveFaults

IOInit == Init /\ args.simulationName = "" /\ args.simulationMode = "Serial" /\ args.stepCount = 0

\* One run in which saveState calls may go wrong.
SpecIO == IOInit /\ [][NextIO]_vars

NextPairIO ==
  \/ NextPair
  \/ (prev # <<>> /\ SaveFaults)

\* Two runs, one after the other; saveState calls of the second run may go
\* wrong.
SpecPairIO == PairInit /\ [][NextPairIO]_vars

\* The run terminates unless it is stopped from outside: the driver is a
\* single sequential thread that always takes its next step.
FairInit == Init /\ args.simulationName = "" /\ args.simulationMode = "Serial"

FairSpec == FairInit /\ [][Next]_vars /\ WF_vars(Next)

\* ------------------------------------------------------------ properties

\* Positions of run() at which no proposal is pending.
AtStepBoundary == pc \in {"loop", "checkpoint", "choose", "final", "report", "done"}

\* The per-step operations of the trace (without createBox and the baseline).
StepEvents == SelectSeq(trace, LAMBDA e : e.op \notin {"createBox", "calcSystemEnergy"})

\* Operations of one step, in the order of lines 126-166.
StepOps == <<"chooseMolecule", "oldEnergyCont", "changeMolecule", "newEnergyCont", "decide">>

\* Steps whose commit or rollback has been applied.
CompletedSteps == Len(SelectSeq(trace, LAMBDA e : e.op \in {"commit", "rollback"}))

\* C1: at every step boundary the running energy oldEnergy equals the total
\* system energy the active backend computes from scratch on the current Box.
C1_EnergyBookkeeping == AtStepBoundary => oldEnergy = CalcSystemEnergy(args.simulationMode, box.pos).val

C1_Witness == pc = "loop" /\ accepted >= 1 /\ rejected >= 1 /\ oldEnergy # boundary[1].oldEnergy

\* C2: a rejected step ends with Box::rollback on the index that was
\* perturbed in that step, and at the next step boundary every molecule is
\* where it was at the start of the rejected step.
C2_RollbackRestores ==
  /\ \A k \in 1..Len(StepEvents) : StepEvents[k].op = "rollback" => (k >= 4 /\ StepEvents[k - 3].op = "changeMolecule" /\ StepEvents[k - 3].step = StepEvents[k].step /\ StepEvents[k - 3].idx = StepEvents[k].idx /\ StepEvents[k - 1].val = 0)
  /\ \A k \in 1..Len(StepEvents) : (StepEvents[k].op = "decide" /\ StepEvents[k].val = 0 /\ k < Len(StepEvents)) => StepEvents[k + 1].op = "rollback"
  /\ \A k \in 1..(Len(boundary) - 1) : boundary[k + 1].rejected # boundary[k].rejected => boundary[k + 1].pos = boundary[k].pos
  /\ (pc = "loop" /\ boundary # <<>> /\ rejected # boundary[Len(boundary)].rejected) => box.pos = boundary[Len(boundary)].pos

C2_Witness == pc = "loop" /\ ~accept /\ rejected >= 1 /\ newEnergyCont # oldEnergyCont /\ box.pos = boundary[Len(boundary)].pos /\ box.pos[changeIdx] = box.backup

\* C3: a step with newEnergyCont < oldEnergyCont is accepted, whatever the
\* state of the random source, and no draw is taken for the decision.
C3_DownhillAccepted == (pc = "apply" /\ newEnergyCont < oldEnergyCont) => (accept /\ draws = 0)

C3_Witness == pc = "apply" /\ newEnergyCont < oldEnergyCont /\ accept /\ ~FactorAtLeastDraw(BoltzmannFactor(1, kT), RandNext(rng))

\* C4: a step with newEnergyCont >= oldEnergyCont takes exactly one draw and
\* is accepted iff exp(-(newEnergyCont - oldEnergyCont) / kT) >= the draw.
C4_MetropolisDraw == (pc = "apply" /\ newEnergyCont >= oldEnergyCont) => (draws = 1 /\ (accept <=> FactorAtLeastDraw(BoltzmannFactor(newEnergyCont - oldEnergyCont, kT), rng)))

C4_Witness == pc = "apply" /\ newEnergyCont > oldEnergyCont /\ accept /\ draws = 1

\* C5: run() executes exactly simSteps steps, with indices stepStart,
\* stepStart + 1, ... in increasing order, then leaves the loop and reaches
\* finalization; with simSteps = 0 no step is executed.
C5_ExactlySimSteps ==
  /\ [](pc \in {"final", "report", "done"} => (CompletedSteps = simSteps /\ Len(StepEvents) = 6 * simSteps /\ move = stepStart + simSteps))
  /\ [](\A k \in 1..Len(StepEvents) : StepEvents[k].step = stepStart + ((k - 1) \div 6))
  /\ [](Len(boundary) <= simSteps + 1 /\ \A k \in 1..Len(boundary) : boundary[k].move = stepStart + k - 1)
  /\ ((pc = "constructed") ~> (pc = "done"))

C5_Witness == pc = "done" /\ simSteps = MaxSteps /\ stepStart > 0 /\ CompletedSteps = MaxSteps

\* C6: the operations of a step occur in the order chooseMolecule, old
\* contribution, changeMolecule, new contribution, decision, commit or
\* rollback, all on the chosen molecule, and every operation of a step
\* follows the commit or rollback of the step before.
C6_StepOrder ==
  \A k \in 1..Len(StepEvents) :
    LET e == StepEvents[k]
        first == 6 * ((k - 1) \div 6) + 1
        j == ((k - 1) % 6) + 1
    IN /\ e.step = stepStart + ((k - 1) \div 6)
       /\ e.idx = StepEvents[first].idx
       /\ j <= 5 => e.op = StepOps[j]
       /\ j = 6 => e.op = (IF StepEvents[k - 1].val = 1 THEN "commit" ELSE "rollback")

C6_Witness == pc = "loop" /\ Len(StepEvents) = 12 /\ StepEvents[6].op = "rollback" /\ StepEvents[12].op = "commit"

\* State files written inside the loop, and all state files, by step index.
InLoopFiles == {k \in 1..Len(stateFiles) : stateFiles[k].inLoop}

FilesForStep(m) == {k \in 1..Len(stateFiles) : stateFiles[k].step = m}

\* C9: with a positive state interval a state file is written for every
\* step index m in stepStart+1..stepStart+simSteps whose offset from stepStart
\* is a multiple of the interval; inside the loop no state file is written
\* for any other index (none at offset 0, none when the interval is <= 0).
C9_CheckpointCadence ==
  /\ \A k \in InLoopFiles : /\ args.stateInterval > 0
                            /\ stateFiles[k].step > stepStart
                            /\ stateFiles[k].step < stepStart + simSteps
                            /\ (stateFiles[k].step - stepStart) % args.stateInterval = 0
                            /\ stateFiles[k].step <= move
  /\ (args.stateInterval > 0 /\ pc \in {"choose", "oldcont", "change", "newcont", "decide", "apply"}) => \A m \in (stepStart + 1)..move : (m - stepStart) % args.stateInterval = 0 => \E k \in InLoopFiles : stateFiles[k].step = m
  /\ (args.stateInterval > 0 /\ pc \in {"report", "done"}) => \A m \in (stepStart + 1)..(stepStart + simSteps) : (m - stepStart) % args.stateInterval = 0 => FilesForStep(m) # {}

C9_Witness == pc = "done" /\ args.stateInterval = 1 /\ simSteps = 2 /\ Len(stateFiles) = 2 /\ stateFiles[1].inLoop /\ stateFiles[1].step = stepStart + 1 /\ stepStart > 0

\* C10: after the loop the state file for stepStart + simSteps is written
\* exactly once if stateInterval >= 0 and not at all if it is negative; with
\* stateInterval = 0 it is the run's only state file; its name is
\* <name>_<stepStart+simSteps>.state.
C10_FinalStateFile ==
  /\ pc \in {"report", "done"} =>
       /\ Cardinality(FilesForStep(stepStart + simSteps)) = (IF args.stateInterval >= 0 THEN 1 ELSE 0)
       /\ args.stateInterval < 0 => stateFiles = <<>>
       /\ args.stateInterval = 0 => Len(stateFiles) = 1
       /\ args.stateInterval >= 0 =>
            /\ ~stateFiles[Len(stateFiles)].inLoop
            /\ stateFiles[Len(stateFiles)].step = stepStart + simSteps
            /\ stateFiles[Len(stateFiles)].name = <<(IF args.simulationName = "" THEN "untitled" ELSE args.simulationName), "_">> \o ToString(stepStart + simSteps) \o <<".state">>
            /\ stateFiles[Len(stateFiles)].pos = box.pos
  /\ pc \notin {"report", "done"} => FilesForStep(stepStart + simSteps) = {}
  /\ StateOutputPath(BaseStateFile("waterCPU"), 1000) = <<"waterCPU", "_", "1", "0", "0", "0", ".state">>

C10_Witness == pc = "done" /\ args.stateInterval = 2 /\ simSteps = 2 /\ Len(stateFiles) = 1 /\ stateFiles[1].name[1] = "waterCPU"

\* ------------------------------------------------------ two-run properties

IsPrefix(a, b) == Len(a) <= Len(b) /\ \A i \in 1..Len(a) : a[i] = b[i]

\* A trace without the names of the backends that served the queries.
Unattributed(t) == [i \in 1..Len(t) |-> [op |-> t[i].op, step |-> t[i].step, idx |-> t[i].idx, val |-> t[i].val]]

\* The Box operations of a trace.
BoxOperations(t) == SelectSeq(Unattributed(t), LAMBDA e : e.op \in {"chooseMolecule", "changeMolecule", "rollback"})

\* The molecule selections and the decisions of a trace.
SelectionsAndDecisions(t) == SelectSeq(Unattributed(t), LAMBDA e : e.op \in {"chooseMolecule", "decide"})

\* C7: the random source is seeded exactly once, from the box's randomseed,
\* before any stochastic decision; two runs on the same input with the same
\* backend make the same selections and decisions and end with the same
\* counts and the same final energy.
C7_Determinism ==
  /\ seedCalls = (IF pc \in {"new", "exit"} THEN 0 ELSE 1)
  /\ pc = "constructed" => rng = SeedState(box.randomseed)
  /\ (prev # <<>> /\ args.simulationMode = prev[1].args.simulationMode) =>
       /\ IsPrefix(SelectionsAndDecisions(trace), SelectionsAndDecisions(prev[1].trace))
       /\ IsPrefix(boundary, prev[1].boundary)
       /\ pc = "done" => (accepted = prev[1].accepted /\ rejected = prev[1].rejected /\ oldEnergy = prev[1].oldEnergy /\ Len(trace) = Len(prev[1].trace))

C7_Witness == pc = "done" /\ prev # <<>> /\ args.simulationMode = prev[1].args.simulationMode /\ accepted >= 1 /\ rejected >= 1 /\ args.stateInterval # prev[1].args.stateInterval

\* C8: a Parallel run and a Serial run on the same input perform the same
\* Box operations and reach the same decisions, counters and running energy
\* at every step boundary; within a run the baseline energy and both
\* contribution queries of every step are served by the backend that
\* simulationMode selects.
C8_BackendParity ==
  /\ \A k \in 1..Len(trace) : trace[k].op \in {"calcSystemEnergy", "oldEnergyCont", "newEnergyCont", "createBox"} => trace[k].by = args.simulationMode
  /\ (prev # <<>> /\ args.simulationMode # prev[1].args.simulationMode) =>
       /\ IsPrefix(BoxOperations(trace), BoxOperations(prev[1].trace))
       /\ IsPrefix(SelectionsAndDecisions(trace), SelectionsAndDecisions(prev[1].trace))
       /\ IsPrefix(boundary, prev[1].boundary)
       /\ pc = "done" => (accepted = prev[1].accepted /\ rejected = prev[1].rejected /\ oldEnergy = prev[1].oldEnergy /\ boundary = prev[1].boundary)

C8_Witness == pc = "done" /\ prev # <<>> /\ args.simulationMode = "Parallel" /\ prev[1].args.simulationMode = "Serial" /\ accepted >= 1 /\ rejected >= 1 /\ trace[Len(trace) - 2].by = "Parallel"

\* C11: a saveState call leaves the Box, the running energy, both counters,
\* the step index and the random source as they were, so two runs on the
\* same input that differ in stateInterval make the same selections and
\* decisions, pass the same step boundaries and end with the same counts
\* and the same final energy.
C11_CheckpointFrame ==
  /\ [][(pc \in {"checkpoint", "final"}) => (UNCHANGED <<box, oldEnergy, accepted, rejected, move, rng, stepStart, simSteps>>)]_vars
  /\ []((prev # <<>> /\ args.stateInterval # prev[1].args.stateInterval) =>
          /\ IsPrefix(SelectionsAndDecisions(trace), SelectionsAndDecisions(prev[1].trace))
          /\ IsPrefix(boundary, prev[1].boundary)
          /\ pc = "done" => (accepted = prev[1].accepted /\ rejected = prev[1].rejected /\ oldEnergy = prev[1].oldEnergy /\ boundary = prev[1].boundary))

C11_Witness == pc = "done" /\ prev # <<>> /\ prev[1].args.stateInterval = 1 /\ args.stateInterval = -1 /\ Len(prev[1].stateFiles) = 2 /\ stateFiles = <<>> /\ accepted >= 1 /\ rejected >= 1

\* C12: every saveState call ends either with the state file written or
\* with a reported write failure; no call returns having done neither.
C12_NoSilentSkip == \A k \in 1..Len(saveLog) : saveLog[k].outcome = "written" \/ saveLog[k].reported

\* The saveState calls of this run that did not write their file.
FailedSaves == {k \in 1..Len(saveLog) : saveLog[k].outcome # "written"}

\* C13: a checkpoint write that fails does not end the run: the loop goes
\* on through every remaining step with the selections, decisions, step
\* boundaries, counts and running energy of a run on the same input whose
\* writes succeed, and the final checkpoint attempt, the results file and
\* the coordinate file are still reached.
C13_FailedCheckpointContinues ==
  (prev # <<>> /\ FailedSaves # {}) =>
     /\ pc # "exit"
     /\ pc # "done" => ENABLED Next
     /\ IsPrefix(SelectionsAndDecisions(trace), SelectionsAndDecisions(prev[1].trace))
     /\ IsPrefix(boundary, prev[1].boundary)
     /\ pc \in {"report", "done"} => Len(saveLog) = Cardinality(InLoopFiles) + Cardinality({k \in FailedSaves : saveLog[k].step < stepStart + simSteps}) + (IF FinalSaveDue(args.stateInterval) THEN 1 ELSE 0)
     /\ pc = "done" =>
          /\ boundary = prev[1].boundary
          /\ accepted = prev[1].accepted /\ rejected = prev[1].rejected /\ oldEnergy = prev[1].oldEnergy
          /\ CompletedSteps = simSteps
          /\ results = prev[1].results

C13_Witness == pc = "done" /\ prev # <<>> /\ simSteps = 2 /\ Len(saveLog) = 2 /\ saveLog[1].outcome = "failed" /\ saveLog[1].step = stepStart + 1 /\ saveLog[2].outcome = "written" /\ Len(results) = 2 /\ accepted = 1 /\ rejected = 1 /\ Len(prev[1].stateFiles) = 2

\* C14: when no move was made (accepted + rejected = 0, a run of zero
\* steps) the reported acceptance ratio is a defined value, never NaN.
C14_RatioGuarded == (pc = "done" /\ accepted + rejected = 0) => ~results[1].ratio.nan

\* C15: when createBox yields no box the constructor ends the process: the
\* random source is not seeded, no energy is evaluated, no step is made and
\* no state file, results file or coordinate file is written; whenever
\* createBox is called, it is the factory of the backend that simulationMode
\* selects, and a box it returns is the one the run uses.
C15_FatalConstruction ==
  /\ [][(pc = "new" /\ input.box.null) => (pc' = "exit" /\ UNCHANGED <<rng, seedCalls, box, stateFiles, saveLog, results, boundary>>)]_vars
  /\ [](input.box.null => pc \in {"new", "exit"})
  /\ [](pc = "exit" =>
          /\ input.box.null
          /\ seedCalls = 0
          /\ trace = <<Event("createBox", 0, 0, args.simulationMode, 0)>>
          /\ boundary = <<>>
          /\ stateFiles = <<>> /\ saveLog = <<>> /\ results = <<>>
          /\ accepted = 0 /\ rejected = 0
          /\ ~ENABLED Next)
  /\ [](pc \notin {"new", "exit"} =>
          /\ trace[1] = Event("createBox", 0, 0, args.simulationMode, 0)
          /\ \A k \in 2..Len(trace) : trace[k].op # "createBox"
          /\ ~box.null /\ box.randomseed = input.box.randomseed /\ box.temp = input.box.temp)

C15_Witness == pc = "exit" /\ input.box.null /\ args.simulationMode = "Parallel" /\ trace[1].by = "Parallel" /\ seedCalls = 0

\* C16, as stated: every step-count override the caller puts into
\* SimulationArgs (any stepCount other than the unset value 0) becomes the
\* number of steps of the run; without one the step count that createBox
\* derived is used; stepStart is the one createBox derived.
C16_EveryOverrideApplied ==
  pc \notin {"new", "exit"} =>
     /\ args.stepCount # 0 => simSteps = args.stepCount
     /\ args.stepCount = 0 => simSteps = input.simSteps
     /\ stepStart = input.stepStart

\* C16, amended: every positive stepCount becomes the number of steps the
\* run executes, whatever createBox derived; a stepCount of zero or less
\* counts as no override and the derived step count is used; stepStart is
\* the one createBox derived in both cases.
C16_PositiveOverrideApplied ==
  pc \notin {"new", "exit"} =>
     /\ args.stepCount > 0 => simSteps = args.stepCount
     /\ args.stepCount <= 0 => simSteps = input.simSteps
     /\ stepStart = input.stepStart
     /\ pc = "done" => (CompletedSteps = simSteps /\ results[1].simSteps = simSteps /\ results[1].stepStart = input.stepStart)

C16_Witness == pc = "done" /\ args.stepCount = 1 /\ input.simSteps = 2 /\ CompletedSteps = 1 /\ stepStart = 2

\* C17: every step adds one to exactly one of accepted and rejected and
\* nothing else changes them; both are never negative and never decrease;
\* at every position of the loop accepted + rejected is the number of
\* completed steps, move - stepStart, and from the end of the loop on it is
\* simSteps.
C17_CounterAccounting ==
  /\ [](accepted >= 0 /\ rejected >= 0)
  /\ []((AtStepBoundary \/ pc \in {"oldcont", "change", "newcont", "decide", "apply"}) => accepted + rejected = move - stepStart)
  /\ [](pc \in {"final", "report", "done"} => (accepted + rejected = simSteps /\ move = stepStart + simSteps))
  /\ [][/\ accepted' >= accepted
        /\ rejected' >= rejected
        /\ (pc = "apply") => (accepted' + rejected' = accepted + rejected + 1 /\ move' = move + 1 /\ (accepted' = accepted \/ rejected' = rejected))
        /\ (pc # "apply") => (accepted' = accepted /\ rejected' = rejected)]_vars

C17_Witness == pc = "done" /\ accepted = 1 /\ rejected = 1 /\ simSteps = 2 /\ stepStart = 2 /\ move = 4

\* C18: applying a rejected step leaves the running energy and the accepted
\* count as they were, counts one rejection and rolls the chosen molecule
\* back; applying an accepted step adds exactly newEnergyCont -
\* oldEnergyCont to the running energy, counts one acceptance, leaves the
\* rejected count as it was, calls no rollback and leaves the Box, with the
\* chosen molecule perturbed, as it is.
C18_ApplyFrame ==
  [][(pc = "apply") =>
       /\ Len(trace') = Len(trace) + 1
       /\ accept =>
            /\ oldEnergy' = oldEnergy + (newEnergyCont - oldEnergyCont)
            /\ accepted' = accepted + 1
            /\ rejected' = rejected
            /\ trace'[Len(trace')].op = "commit"
            /\ box' = box
       /\ ~accept =>
            /\ oldEnergy' = oldEnergy
            /\ accepted' = accepted
            /\ rejected' = rejected + 1
            /\ trace'[Len(trace')] = Event("rollback", move, changeIdx, "Box", 0)]_vars

C18_Witness == pc = "loop" /\ accept /\ trace # <<>> /\ trace[Len(trace)].op = "commit" /\ box.pos[changeIdx] # box.backup /\ newEnergyCont # oldEnergyCont /\ rejected = 0 /\ oldEnergy = boundary[Len(boundary)].oldEnergy + newEnergyCont - oldEnergyCont

\* C19: a state file with step index m holds the Box as it was after exactly
\* m - stepStart completed steps: it is written at a step boundary, after
\* the commit or rollback of step m - 1 and before any operation of step m,
\* so it never holds a perturbation that is still awaiting its decision.
C19_CheckpointConsistency ==
  /\ [](\A k \in 1..Len(stateFiles) :
          /\ stateFiles[k].step - stepStart \in 0..simSteps
          /\ stateFiles[k].step - stepStart + 1 <= Len(boundary)
          /\ boundary[stateFiles[k].step - stepStart + 1].move = stateFiles[k].step
          /\ boundary[stateFiles[k].step - stepStart + 1].pos = stateFiles[k].pos
          /\ boundary[stateFiles[k].step - stepStart + 1].accepted + boundary[stateFiles[k].step - stepStart + 1].rejected = stateFiles[k].step - stepStart)
  /\ [][(stateFiles' # stateFiles) =>
          /\ AtStepBoundary
          /\ stateFiles'[Len(stateFiles')].step = move
          /\ stateFiles'[Len(stateFiles')].pos = box.pos
          /\ CompletedSteps = move - stepStart
          /\ \A j \in 1..Len(StepEvents) : StepEvents[j].step < move]_vars

C19_Witness == pc = "done" /\ args.stateInterval = 1 /\ simSteps = 2 /\ stepStart = 2 /\ Len(stateFiles) = 2 /\ stateFiles[1].inLoop /\ stateFiles[1].step = 3 /\ stateFiles[1].pos # input.box.pos /\ stateFiles[2].pos # stateFiles[1].pos

\* C20: with kT > 0 a proposal whose new contribution equals the old one is
\* always accepted: it is not downhill, so one draw is taken; the Boltzmann
\* factor is exactly 1, which is at least every draw of [0, 1); accepted is
\* incremented and the running energy stays as it was.
C20_EqualEnergyAccepted ==
  /\ (pc = "decide" /\ newEnergyCont = oldEnergyCont /\ kT > 0) =>
        /\ ~Downhill(newEnergyCont, oldEnergyCont)
        /\ BoltzmannFactor(newEnergyCont - oldEnergyCont, kT) = FixedOne
        /\ \A r \in 0..(RngMod - 1) : MetropolisAccept(newEnergyCont, oldEnergyCont, kT, r)
  /\ (pc = "apply" /\ newEnergyCont = oldEnergyCont /\ kT > 0) =>
        /\ accept
        /\ draws = 1
        /\ trace[Len(trace)] = Event("decide", move, changeIdx, "Driver", 1)
  /\ (pc = "loop" /\ CompletedSteps > 0 /\ newEnergyCont = oldEnergyCont /\ kT > 0) =>
        /\ trace[Len(trace)].op = "commit"
        /\ accepted = boundary[Len(boundary)].accepted + 1
        /\ rejected = boundary[Len(boundary)].rejected
        /\ oldEnergy = boundary[Len(boundary)].oldEnergy

C20_Witness == pc = "loop" /\ CompletedSteps = 2 /\ newEnergyCont = oldEnergyCont /\ kT > 0 /\ accept /\ draws = 1 /\ accepted = 1 /\ rejected = 1 /\ RandNext(rng) # rng /\ oldEnergyCont # 0

====
